---- MODULE Spec2Model ----
(***************************************************************************)
(* Model of pkg/usagestats/reporter.go: the cluster-seed negotiation       *)
(* (initLeader / init / fetchSeed / readSeedFile / writeSeedFile), the     *)
(* reporter loop (running / reportUsage) and the schedule function         *)
(* nextReport.                                                             *)
(*                                                                         *)
(* Three specifications share the module:                                  *)
(*   Spec / FairSpec : several Reporter processes of one cluster resolving *)
(*                     the seed against one kv store and one object store. *)
(*   RunSpec         : one Reporter from the end of init() on: the ticker  *)
(*                     loop of running() and reportUsage().                *)
(*   FnSpec          : the pure function nextReport on bounded inputs.     *)
(***************************************************************************)
EXTENDS Integers, Sequences, FiniteSets, TLC

\* ---------------------------------------------------------------- bounds
MaxUID      == 3    \* distinct uuid values available to uuid.NewString()
MaxTime     == 1    \* time.Now() at seed creation ranges over 0..MaxTime
MaxRestarts == 1    \* process restarts in one behaviour
MaxCorrupt  == 1    \* times the environment damages the stored blob

MaxInterval == 4    \* nextReport: interval ranges over 1..MaxInterval
MaxT        == 7    \* nextReport: createdAt and now range over 0..MaxT
MaxStartSteps == 3  \* running: start at createdAt + k*30, k in 0..MaxStartSteps
MaxGap      == 2    \* running: check intervals between two handled ticks
MaxNow      == 190  \* running: horizon of the wall clock
MaxCasRuns  == 2    \* election step: runs of the callback for one candidate

\* ------------------------------------------------------ program constants
attemptNumber == 4
\* reportCheckInterval (one minute) is the unit of time of the reporter loop.
reportCheckInterval == 1
reportInterval == 60
\* backoff.Config.MaxRetries of reportUsage.
MaxRetries == 5
\* The zero time.Time of a new Reporter's lastReport.
ZeroTime == -100000

Leaders   == {"l1", "l2"}          \* processes with conf.Leader = true
Followers == {"f1"}                \* processes with conf.Leader = false
Procs     == Leaders \cup Followers

\* The deployments explored: two leader-role processes, or a leader-role and a
\* follower-role process.
Deployments == {{"l1", "l2"}, {"l1", "f1"}}

UIDs  == 1 .. MaxUID
Times == 0 .. MaxTime

\* ------------------------------------------------------------ ClusterSeed
\* The nil *ClusterSeed.
Nil == [UID |-> 0, PrometheusVersion |-> "", CreatedAt |-> 0]

\* build.GetVersion(): one build in the cluster.
GetVersion == "v"

ClusterSeed(uid, t) == [UID |-> uid, PrometheusVersion |-> GetVersion, CreatedAt |-> t]

\* JSONCodec.Encode: the seed as the sequence of its serialized fields.
Encode(s) == <<s.UID, s.PrometheusVersion, s.CreatedAt>>

\* JSONCodec.Decode: fails on anything that is not a complete document.
DecodeOK(data) == Len(data) = 3
Decode(data) ==
    IF DecodeOK(data)
    THEN [UID |-> data[1], PrometheusVersion |-> data[2], CreatedAt |-> data[3]]
    ELSE Nil

\* The object ClusterSeedFileName in the object store.
NoObject == [present |-> FALSE, data |-> <<>>]
Object(d) == [present |-> TRUE, data |-> d]

VARIABLES
    \* --- deployment
    active,      \* the processes of the cluster that are deployed
    \* --- shared stores
    kv,          \* value under seedKey in the kv store (Nil = key absent)
    blob,        \* object ClusterSeedFileName in the object store
    \* --- per Reporter process
    pc,          \* position in running()/init()/initLeader()/fetchSeed()
    seed,        \* initLeader: local variable seed
    readingErr,  \* fetchSeed: local variable readingErr
    cluster,     \* rep.cluster
    ctxDone,     \* the service context is cancelled
    \* --- environment budgets
    restarts, corrupts,
    \* --- history (observation only)
    written,     \* seeds ever put under ClusterSeedFileName
    resolved,    \* seeds ever returned (non-nil) by init()
    casBy,       \* processes that issued kvClient.CAS
    casRuns,     \* times kvClient.CAS ran the callback of the process's candidate
    putBy,       \* processes that issued objectClient.PutObject
    installer,   \* process whose CAS stored the value under seedKey ("none")
    consec,      \* fetchSeed: consecutive decode failures in this fetch
    startSeed,   \* seed decodable from the blob when the process started
    clobbered,   \* the process deleted or overwrote a decodable blob
    \* --- reporter loop (RunSpec)
    tpc,         \* position in running() after init()
    now,         \* wall clock, in units of reportCheckInterval
    createdAt,   \* rep.cluster.CreatedAt
    next,        \* running: local variable next
    lastReport,  \* rep.lastReport
    numRetries,  \* reportUsage: backoff.NumRetries()
    errs,        \* reportUsage: number of errors in errs
    done,        \* the service context is cancelled
    sendOK,      \* observation: a sendReport of this tick returned nil
    calls,       \* observation: sendReport calls of this tick
    startedAt,   \* observation: wall clock when running() started
    sent,        \* observation: sendReport calls that returned nil so far
    \* --- nextReport (FnSpec)
    fnInterval, fnCreatedAt, fnNow, fnResult, fnDone

seedVars == <<casRuns, active, kv, blob, pc, seed, readingErr, cluster, ctxDone,
              restarts, corrupts, written, resolved, casBy, putBy, installer,
              consec, startSeed, clobbered>>
runVars  == <<tpc, now, createdAt, next, lastReport, numRetries, errs, done,
              sendOK, calls, startedAt, sent>>
fnVars   == <<fnInterval, fnCreatedAt, fnNow, fnResult, fnDone>>
vars     == <<seedVars, runVars, fnVars>>


Upd(f, p, v) == [f EXCEPT ![p] = v]

\* ------------------------------------------------------------ uuid
\* uuid.NewString(): a UID that no store, process or observation refers to.
InUse ==
    {kv.UID, Decode(blob.data).UID}
      \cup {seed[q].UID : q \in Procs} \cup {cluster[q].UID : q \in Procs}
      \cup {startSeed[q].UID : q \in Procs}
      \cup {s.UID : s \in written \cup resolved}
HasFreshUID == UIDs \ InUse /= {}
NewString == CHOOSE u \in UIDs \ InUse : \A v \in UIDs \ InUse : u <= v

\* ------------------------------------------------------------ kv CAS
\* The callback handed to kvClient.CAS (reporter.go:93-102): in is the value
\* stored under seedKey, s the local seed.  seed is the local variable after
\* the call, out the value to store (Nil = store nothing).
CASfn_Overwrite(in, s) == [out |-> s, retry |-> TRUE, seed |-> s]
CASfn_NoAdopt(in, s) ==
    IF in /= Nil /\ in.UID /= s.UID
    THEN [out |-> Nil, retry |-> FALSE, seed |-> s]
    ELSE [out |-> s, retry |-> TRUE, seed |-> s]
CASfn_Inverted(in, s) ==
    IF in /= Nil /\ in.UID = s.UID
    THEN [out |-> Nil, retry |-> FALSE, seed |-> in]
    ELSE [out |-> s, retry |-> TRUE, seed |-> s]
CASfn_Restamp(in, s) ==
    IF in /= Nil /\ in.UID /= s.UID
    THEN [out |-> Nil, retry |-> FALSE, seed |-> in]
    ELSE LET n == IF in = Nil THEN s
                  ELSE [s EXCEPT !.CreatedAt = (in.CreatedAt + 1) % (MaxTime + 1)]
         IN  [out |-> n, retry |-> TRUE, seed |-> n]
CASfn(in, s) ==
    IF in /= Nil /\ in.UID /= s.UID
    THEN [out |-> Nil, retry |-> FALSE, seed |-> in]
    ELSE [out |-> s, retry |-> TRUE, seed |-> s]

\* The store applies the callback atomically to the current value.
KVAfter(r) == IF r.out /= Nil THEN r.out ELSE kv

\* ------------------------------------------------------------ fetchSeed
\* continueFn of the caller: nil for a follower (always retry), for a leader
\* "retry unless the error is object-not-found".
ContinueFn(p, e) == p \in Followers \/ e /= "NotFound"

\* Position after the error handling of one fetchSeed iteration
\* (reporter.go:162-165) and of the caller when fetchSeed returns the error.
AfterErr_AnyErr(p, e) == IF p \in Followers THEN "fetch" ELSE "write"
AfterErr(p, e) == IF ContinueFn(p, e) THEN "fetch" ELSE "write"

\* reporter.go:156: the delete threshold.
OverThreshold(n) == n > attemptNumber

\* ------------------------------------------------------------ Init
SeedStart ==
    /\ kv = Nil
    /\ blob = NoObject
    /\ pc = [p \in Procs |-> "start"]
    /\ seed = [p \in Procs |-> Nil]
    /\ readingErr = [p \in Procs |-> 0]
    /\ cluster = [p \in Procs |-> Nil]
    /\ ctxDone = [p \in Procs |-> FALSE]
    /\ restarts = 0
    /\ corrupts = 0
    /\ written = {}
    /\ resolved = {}
    /\ casBy = {}
    /\ casRuns = [p \in Procs |-> 0]
    /\ putBy = {}
    /\ installer = "none"
    /\ consec = [p \in Procs |-> 0]
    /\ startSeed = [p \in Procs |-> Nil]
    /\ clobbered = [p \in Procs |-> FALSE]

\* Reporter.init has not run: NewReporter's state, stores empty.
SeedInit == active \in Deployments /\ SeedStart

\* The seed protocol is not part of the reporter-loop and nextReport specifications.
SeedIdle == active = {} /\ SeedStart

RunIdle ==
    /\ tpc = "off" /\ now = 0 /\ createdAt = 0 /\ next = 0 /\ lastReport = 0
    /\ numRetries = 0 /\ errs = 0 /\ done = FALSE /\ sendOK = FALSE
    /\ calls = 0 /\ startedAt = 0 /\ sent = 0

FnIdle ==
    /\ fnInterval = 1 /\ fnCreatedAt = 0 /\ fnNow = 0 /\ fnResult = 0
    /\ fnDone = FALSE

Init == SeedInit /\ RunIdle /\ FnIdle

\* ------------------------------------------------------------ actions
\* running() -> init(): the role decides between initLeader and fetchSeed.
IsLeader_Always(p) == TRUE
IsLeader(p) == p \in Leaders

Running(p) ==
    /\ p \in active
    /\ pc[p] = "start"
    /\ pc' = Upd(pc, p, IF IsLeader(p) THEN "cas" ELSE "fetch")
    /\ startSeed' = Upd(startSeed, p, IF blob.present THEN Decode(blob.data) ELSE Nil)
    /\ UNCHANGED <<casRuns, active, installer, kv, blob, seed, readingErr, cluster, ctxDone, restarts,
                   corrupts, written, resolved, casBy, putBy, consec, clobbered>>

\* initLeader, one loop iteration up to the CAS: the CAS fails, nothing stored.
CASFail(p) ==
    /\ pc[p] = "cas"
    /\ casBy' = casBy \cup {p}
    /\ UNCHANGED <<casRuns, active, installer, kv, blob, pc, seed, readingErr, cluster, ctxDone,
                   restarts, corrupts, written, resolved, putBy, consec,
                   startSeed, clobbered>>

\* The CAS reports an error although the store applied the callback's value.
CASFailApplied(p) ==
    /\ pc[p] = "cas"
    /\ HasFreshUID
    /\ \E t \in Times :
          kv' = KVAfter(CASfn(kv, ClusterSeed(NewString, t)))
    /\ kv' /= kv
    /\ installer' = IF kv' /= kv THEN p ELSE installer
    /\ casBy' = casBy \cup {p}
    /\ UNCHANGED <<casRuns, active, blob, pc, seed, readingErr, cluster, ctxDone,
                   restarts, corrupts, written, resolved, putBy, consec,
                   startSeed, clobbered>>

\* The CAS succeeds; fetchSeed starts with readingErr = 0.
CASOk(p) ==
    /\ pc[p] = "cas"
    /\ HasFreshUID
    /\ \E t \in Times :
          LET r == CASfn(kv, ClusterSeed(NewString, t)) IN
          /\ kv' = KVAfter(r)
          /\ seed' = Upd(seed, p, r.seed)
    /\ installer' = IF kv' /= kv THEN p ELSE installer
    /\ casBy' = casBy \cup {p}
    /\ pc' = Upd(pc, p, "fetch")
    /\ UNCHANGED <<casRuns, active, blob, readingErr, cluster, ctxDone, restarts, corrupts,
                   written, resolved, putBy, consec, startSeed, clobbered>>

\* fetchSeed: backoff.Ongoing() is false once the context is cancelled; the
\* function returns (nil, backoff.Err()).  initLeader continues its loop on
\* that error (it is not object-not-found); init() of a follower stores nil.
FetchCancelled(p) ==
    /\ pc[p] = "fetch"
    /\ ctxDone[p]
    /\ pc' = Upd(pc, p, IF IsLeader(p) THEN "cas" ELSE "sched")
    /\ seed' = Upd(seed, p, Nil)
    /\ cluster' = Upd(cluster, p, Nil)
    /\ readingErr' = Upd(readingErr, p, 0)
    /\ consec' = Upd(consec, p, 0)
    /\ UNCHANGED <<casRuns, active, installer, kv, blob, ctxDone, restarts, corrupts, written, resolved,
                   casBy, putBy, startSeed, clobbered>>

\* fetchSeed: readSeedFile returned a decoded seed; fetchSeed and init return it.
ReadOK(p) ==
    /\ pc[p] = "fetch"
    /\ ~ctxDone[p]
    /\ blob.present /\ DecodeOK(blob.data)
    /\ cluster' = Upd(cluster, p, Decode(blob.data))
    /\ resolved' = resolved \cup {Decode(blob.data)}
    /\ pc' = Upd(pc, p, "sched")
    /\ seed' = Upd(seed, p, Nil)
    /\ readingErr' = Upd(readingErr, p, 0)
    /\ consec' = Upd(consec, p, 0)
    /\ UNCHANGED <<casRuns, active, installer, kv, blob, ctxDone, restarts, corrupts, written, casBy,
                   putBy, startSeed, clobbered>>

ReadFailed_NoDelete(p, e, n, c) ==
    /\ UNCHANGED <<blob, clobbered>>
    /\ readingErr' = Upd(readingErr, p, IF OverThreshold(n) THEN 0 ELSE n)
    /\ consec' = Upd(consec, p, IF OverThreshold(n) THEN 0 ELSE c)
    /\ IF AfterErr(p, e) = "fetch"
       THEN UNCHANGED pc
       ELSE /\ pc' = Upd(pc, p, AfterErr(p, e))
    /\ UNCHANGED <<casRuns, active, installer, kv, seed, cluster, ctxDone, restarts, corrupts, written,
                   resolved, casBy, putBy, startSeed>>
\* fetchSeed, reporter.go:151-165 after readSeedFile failed with error e; n is
\* readingErr after lines 152-154 and c the run of decode failures.  Over the
\* threshold DeleteObject is called (it may fail) and readingErr is reset.
ReadFailed(p, e, n, c) ==
    /\ IF OverThreshold(n)
       THEN /\ \E ok \in BOOLEAN :
                 /\ blob' = IF ok THEN NoObject ELSE blob
                 /\ clobbered' = Upd(clobbered, p,
                       clobbered[p] \/ (ok /\ startSeed[p] /= Nil /\ DecodeOK(blob.data)))
            /\ readingErr' = Upd(readingErr, p, 0)
            /\ consec' = Upd(consec, p, 0)
       ELSE /\ UNCHANGED <<blob, clobbered>>
            /\ readingErr' = Upd(readingErr, p, n)
            /\ consec' = Upd(consec, p, c)
    /\ IF AfterErr(p, e) = "fetch"
       THEN UNCHANGED pc
       ELSE /\ pc' = Upd(pc, p, AfterErr(p, e))
    /\ UNCHANGED <<casRuns, active, installer, kv, seed, cluster, ctxDone, restarts, corrupts, written,
                   resolved, casBy, putBy, startSeed>>

\* GetObject: object not found.
ReadNotFound(p) ==
    /\ pc[p] = "fetch"
    /\ ~ctxDone[p]
    /\ ~blob.present
    /\ ReadFailed(p, "NotFound", readingErr[p], 0)

\* JSONCodec.Decode fails on the object's bytes.
ReadCorrupt(p) ==
    /\ pc[p] = "fetch"
    /\ ~ctxDone[p]
    /\ blob.present /\ ~DecodeOK(blob.data)
    /\ ReadFailed(p, "Corrupt", readingErr[p] + 1, consec[p] + 1)

\* GetObject or io.ReadAll fail for another reason (transient).
ReadIOError(p) ==
    /\ pc[p] = "fetch"
    /\ ~ctxDone[p]
    /\ ReadFailed(p, "IOError", readingErr[p] + 1, 0)

\* initLeader, reporter.go:113-119: fetchSeed returned object-not-found;
\* writeSeedFile stores the local seed and initLeader returns it.
WriteOK(p) ==
    /\ pc[p] = "write"
    /\ blob' = Object(Encode(seed[p]))
    /\ written' = written \cup {seed[p]}
    /\ putBy' = putBy \cup {p}
    /\ clobbered' = Upd(clobbered, p,
          clobbered[p] \/ (startSeed[p] /= Nil /\ blob.present /\ DecodeOK(blob.data)))
    /\ cluster' = Upd(cluster, p, seed[p])
    /\ resolved' = resolved \cup {seed[p]}
    /\ pc' = Upd(pc, p, "sched")
    /\ seed' = Upd(seed, p, Nil)
    /\ readingErr' = Upd(readingErr, p, 0)
    /\ consec' = Upd(consec, p, 0)
    /\ UNCHANGED <<casRuns, active, installer, kv, ctxDone, restarts, corrupts, casBy, startSeed>>

\* writeSeedFile fails: continue with the next iteration of initLeader.
WriteFail(p) ==
    /\ pc[p] = "write"
    /\ putBy' = putBy \cup {p}
    /\ seed' = Upd(seed, p, Nil)
    /\ readingErr' = Upd(readingErr, p, 0)
    /\ consec' = Upd(consec, p, 0)
    /\ pc' = Upd(pc, p, "cas")
    /\ UNCHANGED <<casRuns, active, installer, kv, blob, cluster, ctxDone, restarts, corrupts, written,
                   resolved, casBy, startSeed, clobbered>>

\* running(), reporter.go:215: rep.cluster.CreatedAt is read to compute the
\* schedule; a nil rep.cluster is a nil-pointer dereference (panic).
Schedule(p) ==
    /\ pc[p] = "sched"
    /\ pc' = Upd(pc, p, IF cluster[p] = Nil THEN "panic" ELSE "loop")
    /\ UNCHANGED <<casRuns, active, installer, kv, blob, seed, readingErr, cluster, ctxDone, restarts,
                   corrupts, written, resolved, casBy, putBy, consec,
                   startSeed, clobbered>>

\* running(), reporter.go:234-235: the loop returns ctx.Err().
LoopDone(p) ==
    /\ pc[p] = "loop"
    /\ ctxDone[p]
    /\ pc' = Upd(pc, p, "stopped")
    /\ UNCHANGED <<casRuns, active, installer, kv, blob, seed, readingErr, cluster, ctxDone, restarts,
                   corrupts, written, resolved, casBy, putBy, consec,
                   startSeed, clobbered>>

\* ------------------------------------------------------------ environment
\* The service context is cancelled (service stop).
Cancel(p) ==
    /\ ~ctxDone[p]
    /\ pc[p] \notin {"start", "stopped", "panic"}
    /\ ctxDone' = Upd(ctxDone, p, TRUE)
    /\ UNCHANGED <<casRuns, active, installer, kv, blob, pc, seed, readingErr, cluster, restarts, corrupts,
                   written, resolved, casBy, putBy, consec, startSeed, clobbered>>

\* The process is restarted: a new Reporter (NewReporter) with a new context.
Restart(p) ==
    /\ restarts < MaxRestarts
    /\ pc[p] /= "start"
    /\ restarts' = restarts + 1
    /\ pc' = Upd(pc, p, "start")
    /\ seed' = Upd(seed, p, Nil)
    /\ readingErr' = Upd(readingErr, p, 0)
    /\ cluster' = Upd(cluster, p, Nil)
    /\ ctxDone' = Upd(ctxDone, p, FALSE)
    /\ consec' = Upd(consec, p, 0)
    /\ startSeed' = Upd(startSeed, p, Nil)
    /\ clobbered' = Upd(clobbered, p, FALSE)
    /\ UNCHANGED <<casRuns, active, installer, kv, blob, corrupts, written, resolved, casBy, putBy>>

\* The stored object is damaged (truncated): it no longer decodes.
CorruptBlob ==
    /\ corrupts < MaxCorrupt
    /\ blob.present /\ DecodeOK(blob.data)
    /\ corrupts' = corrupts + 1
    /\ blob' = Object(SubSeq(blob.data, 1, 1))
    /\ UNCHANGED <<casRuns, active, installer, kv, pc, seed, readingErr, cluster, ctxDone, restarts,
                   written, resolved, casBy, putBy, consec, startSeed, clobbered>>

\* ------------------------------------------------------------ Spec
ProcStep(p) ==
    \/ Running(p)
    \/ CASFail(p)
    \/ CASFailApplied(p)
    \/ CASOk(p)
    \/ FetchCancelled(p)
    \/ ReadOK(p)
    \/ ReadNotFound(p)
    \/ ReadCorrupt(p)
    \/ ReadIOError(p)
    \/ WriteOK(p)
    \/ WriteFail(p)
    \/ Schedule(p)
    \/ LoopDone(p)

Next ==
    \/ \E p \in Procs : Running(p) /\ UNCHANGED <<runVars, fnVars>>
    \/ \E p \in Procs : CASFail(p) /\ UNCHANGED <<runVars, fnVars>>
    \/ \E p \in Procs : CASFailApplied(p) /\ UNCHANGED <<runVars, fnVars>>
    \/ \E p \in Procs : CASOk(p) /\ UNCHANGED <<runVars, fnVars>>
    \/ \E p \in Procs : FetchCancelled(p) /\ UNCHANGED <<runVars, fnVars>>
    \/ \E p \in Procs : ReadOK(p) /\ UNCHANGED <<runVars, fnVars>>
    \/ \E p \in Procs : ReadNotFound(p) /\ UNCHANGED <<runVars, fnVars>>
    \/ \E p \in Procs : ReadCorrupt(p) /\ UNCHANGED <<runVars, fnVars>>
    \/ \E p \in Procs : ReadIOError(p) /\ UNCHANGED <<runVars, fnVars>>
    \/ \E p \in Procs : WriteOK(p) /\ UNCHANGED <<runVars, fnVars>>
    \/ \E p \in Procs : WriteFail(p) /\ UNCHANGED <<runVars, fnVars>>
    \/ \E p \in Procs : Schedule(p) /\ UNCHANGED <<runVars, fnVars>>
    \/ \E p \in Procs : LoopDone(p) /\ UNCHANGED <<runVars, fnVars>>
    \/ \E p \in Procs : Cancel(p) /\ UNCHANGED <<runVars, fnVars>>
    \/ \E p \in Procs : Restart(p) /\ UNCHANGED <<runVars, fnVars>>
    \/ CorruptBlob /\ UNCHANGED <<runVars, fnVars>>

Spec == Init /\ [][Next]_vars

\* Each process takes its next program step eventually (the Go scheduler runs
\* every goroutine; a store call returns).  Cancellation, restarts and damage
\* to the blob are the environment's and carry no fairness.
FairSpec ==
    Spec /\ \A p \in Procs : WF_vars(ProcStep(p) /\ UNCHANGED <<runVars, fnVars>>)

\* ================================================================ claims
Decodable == blob.present /\ DecodeOK(blob.data)

\* C1: every seed ever written to the blob path carries the same UID and
\* CreatedAt, and a decodable blob holds such a seed.
C1_OneSeedPersisted ==
    /\ \A s1 \in written : \A s2 \in written :
          s1.UID = s2.UID /\ s1.CreatedAt = s2.CreatedAt
    /\ Decodable => Decode(blob.data) \in written

\* C1 witness: both leader-role processes have put the blob (the second after
\* the first one's blob was deleted), and it is decodable.
C1_Witness ==
    /\ putBy = Leaders
    /\ Cardinality(written) = 1
    /\ Decodable

\* C2: all processes that resolved a seed hold the same UID, now and across
\* restarts, and a decodable blob carries the UID under the election key.
C2_Agreement ==
    /\ \A p \in Procs : \A q \in Procs :
          (cluster[p] /= Nil /\ cluster[q] /= Nil) => cluster[p].UID = cluster[q].UID
    /\ \A s1 \in resolved : \A s2 \in resolved : s1.UID = s2.UID
    /\ Decodable => (kv /= Nil /\ Decode(blob.data).UID = kv.UID)

\* C2 witness: two leader candidates both issued the CAS, exactly one of them
\* wrote the blob and both have resolved.
C2_Witness ==
    /\ casBy = Leaders
    /\ Cardinality(putBy) = 1
    /\ \A p \in Leaders : cluster[p] /= Nil /\ cluster[p].UID = kv.UID

\* C3 (as claimed): a process whose context is cancelled while it resolves the
\* seed eventually terminates with the cancellation cause (or is restarted).
C3_Original ==
    \A p \in Procs :
        (ctxDone[p] /\ pc[p] \in {"cas", "fetch", "write"})
            ~> (~ctxDone[p] \/ pc[p] = "stopped")

\* C4 (as claimed): a service whose resolution returned no seed never reads
\* the seed, never enters the loop, and no failure state is reachable.
C4_Original ==
    \A p \in Procs :
        /\ pc[p] /= "panic"
        /\ pc[p] = "loop" => cluster[p] /= Nil

\* C7 (as claimed): the 4th consecutive decode failure of one fetch issues the
\* delete and resets the counter, so no fetch goes on to its next read with a
\* run of attemptNumber decode failures behind it.
C7_Original ==
    \A p \in Procs : ~(pc[p] = "fetch" /\ consec[p] >= attemptNumber)

\* C8 (as claimed): a leader-role process that started with a decodable blob
\* resolves to that blob's seed and never deletes or overwrites a decodable blob.
C8_Original ==
    \A p \in Leaders :
        startSeed[p] /= Nil =>
            /\ ~clobbered[p]
            /\ cluster[p] /= Nil => cluster[p] = startSeed[p]

\* C9: a follower-role process issues no CAS and no put, and a step of a
\* follower leaves the election key alone and the blob unchanged or deleted.
FollowerMoved(p) ==
    <<pc[p], readingErr[p], consec[p], cluster[p], ctxDone[p]>>
        /= <<pc'[p], readingErr'[p], consec'[p], cluster'[p], ctxDone'[p]>>
C9_FollowerNeverWrites ==
    [][\A p \in Followers :
          /\ p \notin casBy' /\ p \notin putBy'
          /\ FollowerMoved(p) => (kv' = kv /\ blob' \in {blob, NoObject})]_vars

\* C9 witness: a follower resolved the seed after the blob had been damaged.
C9_Witness ==
    \E p \in Followers : pc[p] = "loop" /\ cluster[p] = kv /\ corrupts > 0

\* C10: once the election key holds a seed it never changes; a later CAS by a
\* candidate with another UID stores nothing and the candidate adopts the
\* stored seed.
C10_KeyStable ==
    [][kv /= Nil =>
          /\ kv' = kv
          /\ \A p \in Procs :
                (pc[p] = "cas" /\ pc'[p] = "fetch") =>
                    /\ seed'[p] = kv
                    /\ \A t \in Times : CASfn(kv, ClusterSeed(NewString, t)).out = Nil]_vars

\* C10 witness: both candidates are past the CAS and hold the stored seed.
C10_Witness ==
    /\ kv /= Nil
    /\ \A p \in Leaders : pc[p] = "fetch" /\ seed[p] = kv

\* ================================================================ nextReport
\* math.Ceil(float64(d) / float64(i)) for i > 0: the least integer >= d/i.
\* (float64 is exact on the durations and quotients of this model.)
Ceil(d, i) == -((-d) \div i)

nextReport_Floor(interval, created, t) ==
    created + (((t - created) \div interval) * interval)
\* reporter.go:263-266.
nextReport(interval, created, t) ==
    created + (Ceil(t - created, interval) * interval)

FnInit ==
    /\ fnInterval \in 1 .. MaxInterval
    /\ fnCreatedAt \in 0 .. MaxT
    /\ fnNow \in 0 .. MaxT
    /\ fnResult = 0
    /\ fnDone = FALSE

\* One evaluation of nextReport on the drawn arguments.
FnApply ==
    /\ ~fnDone
    /\ fnResult' = nextReport(fnInterval, fnCreatedAt, fnNow)
    /\ fnDone' = TRUE
    /\ UNCHANGED <<fnInterval, fnCreatedAt, fnNow>>

FnNext == FnApply /\ UNCHANGED <<seedVars, runVars>>

FnStart == SeedIdle /\ RunIdle /\ FnInit

FnSpec == FnStart /\ [][FnNext]_vars

C18_Original ==
    fnDone =>
        /\ fnResult >= fnCreatedAt
        /\ fnResult >= fnNow
        /\ (fnResult - fnCreatedAt) % fnInterval = 0
        /\ (fnResult = fnCreatedAt \/ fnResult - fnInterval < fnNow)

\* ================================================================ running
\* One Reporter whose init() returned a seed created at createdAt; the service
\* starts at a wall-clock time now.
RunInit ==
    /\ tpc = "sched"
    /\ createdAt \in Times
    /\ now \in {k * 30 : k \in 0 .. MaxStartSteps}
    /\ next = 0
    /\ lastReport = ZeroTime
    /\ numRetries = 0
    /\ errs = 0
    /\ done = FALSE
    /\ sendOK = FALSE
    /\ calls = 0
    /\ startedAt = now
    /\ sent = 0

\* reporter.go:215-219: the first next, and lastReport of a Reporter that
\* never reported.
RunSchedule ==
    /\ tpc = "sched"
    /\ next' = nextReport(reportInterval, createdAt, now)
    /\ lastReport' = IF lastReport = ZeroTime THEN next' - reportInterval ELSE lastReport
    /\ tpc' = "select"
    /\ UNCHANGED <<now, createdAt, numRetries, errs, done, sendOK, calls, startedAt, sent>>

\* reporter.go:224: the tick at time t is skipped unless this is false.
NotDue_Early(t) == next /= t /\ t - lastReport < reportCheckInterval
NotDue(t) == next /= t /\ t - lastReport < reportInterval

\* A tick is received (select may take it also when ctx.Done() is ready) and
\* the report is not due: continue.
TickIdle ==
    /\ tpc = "select"
    /\ \E d \in 1 .. MaxGap :
          /\ now + d * reportCheckInterval <= MaxNow
          /\ now' = now + d * reportCheckInterval
    /\ NotDue(now')
    /\ sendOK' = FALSE
    /\ calls' = 0
    /\ UNCHANGED <<tpc, createdAt, next, lastReport, numRetries, errs, done, startedAt, sent>>

\* A tick is received and the report is due: reportUsage(ctx, next) is
\* entered with a new backoff and an empty errs.
TickDue ==
    /\ tpc = "select"
    /\ \E d \in 1 .. MaxGap :
          /\ now + d * reportCheckInterval <= MaxNow
          /\ now' = now + d * reportCheckInterval
    /\ ~NotDue(now')
    /\ tpc' = "report"
    /\ numRetries' = 0
    /\ errs' = 0
    /\ sendOK' = FALSE
    /\ calls' = 0
    /\ UNCHANGED <<createdAt, next, lastReport, done, startedAt, sent>>

\* backoff.Ongoing(): the context is alive and retries are left.
Ongoing_OffByOne == ~done /\ numRetries <= MaxRetries
Ongoing == ~done /\ numRetries < MaxRetries

\* reporter.go:232-233, after reportUsage returned nil.
Advance_Now ==
    /\ lastReport' = now
    /\ next' = next + reportInterval
    /\ tpc' = "select"
Advance ==
    /\ lastReport' = next
    /\ next' = next + reportInterval
    /\ tpc' = "select"

\* reportUsage: sendReport succeeds; return nil.
SendOK ==
    /\ tpc = "report"
    /\ Ongoing
    /\ calls' = calls + 1
    /\ sendOK' = TRUE
    /\ sent' = sent + 1
    /\ Advance
    /\ UNCHANGED <<now, createdAt, numRetries, errs, done, startedAt>>

\* reportUsage: sendReport fails; errs.Add(err), backoff.Wait(), continue.
SendFail ==
    /\ tpc = "report"
    /\ Ongoing
    /\ calls' = calls + 1
    /\ errs' = errs + 1
    /\ numRetries' = numRetries + 1
    /\ UNCHANGED <<tpc, now, createdAt, next, lastReport, done, sendOK, startedAt, sent>>

\* reportUsage: the loop ends with errors collected; errs.Err() is non-nil and
\* running continues without advancing.
ReportFailed ==
    /\ tpc = "report"
    /\ ~Ongoing
    /\ errs > 0
    /\ tpc' = "select"
    /\ UNCHANGED <<now, createdAt, next, lastReport, numRetries, errs, done,
                   sendOK, calls, startedAt, sent>>

\* reportUsage: the loop ends with no error collected (the context was
\* cancelled before the first attempt); errs.Err() is nil.
ReportEmpty ==
    /\ tpc = "report"
    /\ ~Ongoing
    /\ errs = 0
    /\ Advance
    /\ UNCHANGED <<now, createdAt, numRetries, errs, done, sendOK, calls, startedAt, sent>>

\* reporter.go:234-235.
RunDone ==
    /\ tpc = "select"
    /\ done
    /\ tpc' = "stopped"
    /\ UNCHANGED <<now, createdAt, next, lastReport, numRetries, errs, done,
                   sendOK, calls, startedAt, sent>>

\* The service context is cancelled.
RunCancel ==
    /\ ~done
    /\ tpc /= "stopped"
    /\ done' = TRUE
    /\ UNCHANGED <<tpc, now, createdAt, next, lastReport, numRetries, errs,
                   sendOK, calls, startedAt, sent>>

RunNext ==
    \/ RunSchedule /\ UNCHANGED <<seedVars, fnVars>>
    \/ TickIdle /\ UNCHANGED <<seedVars, fnVars>>
    \/ TickDue /\ UNCHANGED <<seedVars, fnVars>>
    \/ SendOK /\ UNCHANGED <<seedVars, fnVars>>
    \/ SendFail /\ UNCHANGED <<seedVars, fnVars>>
    \/ ReportFailed /\ UNCHANGED <<seedVars, fnVars>>
    \/ ReportEmpty /\ UNCHANGED <<seedVars, fnVars>>
    \/ RunDone /\ UNCHANGED <<seedVars, fnVars>>
    \/ RunCancel /\ UNCHANGED <<seedVars, fnVars>>

RunStart == SeedIdle /\ RunInit /\ FnIdle

RunSpec == RunStart /\ [][RunNext]_vars

\* C5 (as claimed): in every tick lastReport and next advance if and only if a
\* sendReport of that tick returned success, and then by exactly one interval.
C5_Original ==
    [][tpc = "report" =>
          /\ (<<lastReport', next'>> /= <<lastReport, next>>) <=> sendOK'
          /\ sendOK' => (lastReport' = next /\ next' = next + reportInterval)]_vars

\* ---------------------------------------------------------------- C11
\* The step in which process p's writeSeedFile stored the blob.
Wrote(p) == pc[p] = "write" /\ pc'[p] = "sched"

\* C11 (as claimed): only the process whose CAS installed the election record
\* writes the seed blob; a leader-role process that lost never writes it.
C11_Original ==
    [][\A p \in Procs : Wrote(p) => p = installer]_vars

\* C11 (amended): exactly one CAS ever installs the election record; every
\* leader-role process whose CAS returned without error, the installer or a
\* loser that adopted the stored seed, may write the blob, and what it writes
\* is the encoded seed of the election record.
C11_OneInstallerSameSeed ==
    [][/\ installer /= "none" => installer' = installer
       /\ \A p \in Procs :
             Wrote(p) =>
                 /\ p \in Leaders /\ p \in casBy
                 /\ installer /= "none"
                 /\ blob' = Object(Encode(kv))]_vars

\* C11 witness: the blob exists and was put by a leader-role process that did
\* not install the election record (the installer issued no put).
C11_Witness ==
    /\ installer \in Leaders
    /\ installer \notin putBy
    /\ \E p \in Leaders : p /= installer /\ p \in putBy /\ cluster[p] = kv
    /\ Decodable

\* ---------------------------------------------------------------- C12
\* C12: in one due tick sendReport is called at most MaxRetries (5) times and
\* never again after a success; while no call succeeded errs holds one error
\* per call; when all attempts failed reportUsage returns that non-empty
\* aggregate and running goes back to the select with the schedule unchanged.
C12_BoundedAttempts ==
    [][/\ calls' <= MaxRetries
       /\ sendOK' => tpc' /= "report"
       /\ (tpc' = "report" /\ ~sendOK') => errs' = calls'
       /\ (tpc = "report" /\ numRetries = MaxRetries /\ done' = done) =>
             /\ errs = MaxRetries
             /\ tpc' = "select"
             /\ next' = next /\ lastReport' = lastReport]_vars

\* C12 witness: a tick whose five attempts all failed, back at the select.
C12_Witness ==
    /\ tpc = "select"
    /\ ~done
    /\ ~sendOK
    /\ calls = MaxRetries
    /\ errs = MaxRetries


\* ------------------------------------------------------------------ C20
\* C20: writeSeedFile is reached only by a leader-role process, from a read
\* that found no object; the seed it is about to write has the UID stored
\* under the election key, and a completed write stores exactly that seed;
\* a failed write leads back to the compare-and-swap.
C20_WriteAfterNotFound ==
    [][\A p \in Procs :
          /\ (pc[p] /= "write" /\ pc'[p] = "write") =>
                (p \in Leaders /\ pc[p] = "fetch" /\ ~blob.present)
          /\ pc'[p] = "write" =>
                (kv' /= Nil /\ seed'[p] /= Nil /\ seed'[p].UID = kv'.UID)
          /\ (pc[p] = "write" /\ pc'[p] = "sched") =>
                (DecodeOK(blob'.data) /\ Decode(blob'.data).UID = kv.UID)
          /\ (pc[p] = "write" /\ pc'[p] \notin {"write", "sched", "start"}) =>
                (pc'[p] = "cas" /\ blob' = blob)]_vars

\* A leader that did not install the election record is about to write the
\* adopted seed again after its earlier write failed.
C20_Witness ==
    \E p \in Leaders :
        /\ pc[p] = "write"
        /\ p \in putBy
        /\ written = {}
        /\ installer \in Leaders \ {p}
        /\ seed[p] = kv

\* ------------------------------------------------------------------ C16
\* fetchSeed takes the branch of reporter.go:156-161 (DeleteObject is called
\* and readingErr reset) and goes on reading.
DeleteIssued(p) ==
    /\ pc[p] = "fetch" /\ pc'[p] = "fetch"
    /\ readingErr[p] = attemptNumber
    /\ readingErr'[p] = 0

\* C16 (as claimed): a delete is issued only on an undecodable blob, at the
\* end of a run of consecutive undecodable reads that reaches the threshold
\* (reads that found no object or failed transiently are not part of a run).
C16_Original ==
    [][\A p \in Procs :
          DeleteIssued(p) =>
              /\ blob.present /\ ~DecodeOK(blob.data)
              /\ consec[p] + 1 >= attemptNumber]_vars

\* =========================================================== election step
\* kvClient.CAS with one candidate per leader-role process: the client runs
\* the callback of reporter.go:93-102 against the stored value, and runs it
\* again with the same local seed when it retries the operation.

\* reporter.go:87-92: the candidate of this loop iteration.
CasCandidate(p) ==
    /\ pc[p] = "start"
    /\ HasFreshUID
    /\ \E t \in Times : seed' = Upd(seed, p, ClusterSeed(NewString, t))
    /\ pc' = Upd(pc, p, "cas")
    /\ UNCHANGED <<casRuns, active, kv, blob, readingErr, cluster, ctxDone, restarts,
                   corrupts, written, resolved, casBy, putBy, installer, consec,
                   startSeed, clobbered>>

\* reporter.go:93-102: one run of the callback, applied atomically.
CasApply(p) ==
    /\ pc[p] = "cas"
    /\ casRuns[p] < MaxCasRuns
    /\ LET r == CASfn(kv, seed[p]) IN
          /\ kv' = KVAfter(r)
          /\ seed' = Upd(seed, p, r.seed)
    /\ installer' = IF kv' /= kv THEN p ELSE installer
    /\ casBy' = casBy \cup {p}
    /\ casRuns' = Upd(casRuns, p, casRuns[p] + 1)
    /\ UNCHANGED <<active, blob, pc, readingErr, cluster, ctxDone, restarts,
                   corrupts, written, resolved, putBy, consec, startSeed, clobbered>>

\* The election step is given up (the client returns); a later loop
\* iteration starts with a new candidate.
CasReturn(p) ==
    /\ pc[p] = "cas"
    /\ casRuns[p] > 0
    /\ pc' = Upd(pc, p, "start")
    /\ casRuns' = Upd(casRuns, p, 0)
    /\ UNCHANGED <<active, kv, blob, seed, readingErr, cluster, ctxDone, restarts,
                   corrupts, written, resolved, casBy, putBy, installer, consec,
                   startSeed, clobbered>>

CasNext ==
    \/ \E p \in Leaders : CasCandidate(p) /\ UNCHANGED <<runVars, fnVars>>
    \/ \E p \in Leaders : CasApply(p) /\ UNCHANGED <<runVars, fnVars>>
    \/ \E p \in Leaders : CasReturn(p) /\ UNCHANGED <<runVars, fnVars>>

CasStart == SeedIdle /\ RunIdle /\ FnIdle

CasSpec == CasStart /\ [][CasNext]_vars

\* C15: when the candidate's UID is the one stored under the election key,
\* running the compare-and-swap again with that candidate leaves the stored
\* value unchanged and yields the same seed, equal to the stored one; and
\* every run yields the stored seed.
C15_Idempotent ==
    [][\A p \in Leaders :
          (pc[p] = "cas" /\ casRuns'[p] = casRuns[p] + 1) =>
              /\ seed'[p] = kv'
              /\ (kv /= Nil /\ kv.UID = seed[p].UID) =>
                    (kv' = kv /\ seed'[p] = seed[p])]_vars

\* The winner's candidate has been run twice against the key it installed.
C15_Witness ==
    \E p \in Leaders :
        /\ casRuns[p] = 2
        /\ installer = p
        /\ kv /= Nil
        /\ seed[p] = kv


\* ------------------------------------------------------------------ C14
\* The cadence scenario: the seed was created at T0 = 0, the service starts
\* at T0 + 90 and has reported nothing yet.
CadenceScenario == createdAt = 0 /\ startedAt = 90 /\ sent = 0

\* C14 (as claimed): in the cadence scenario the first tick, at T0 + 91, finds
\* the report due and enters the transmission.
C14_Original ==
    [][(CadenceScenario /\ tpc = "select" /\ now = 90 /\ now' = 91) =>
            tpc' = "report"]_vars

\* C14 (amended): in the cadence scenario the schedule is next = T0 + 120 and
\* lastReport = T0 + 60; a tick enters the transmission exactly when it is at
\* or after T0 + 120; when the transmission has failed 5 times the loop goes
\* back to waiting with lastReport and next unchanged, and the following tick
\* enters the transmission again for the same next.
C14_Cadence ==
    [][CadenceScenario =>
          /\ (tpc = "sched" /\ tpc' = "select") => (next' = 120 /\ lastReport' = 60)
          /\ (tpc = "select" /\ now' /= now /\ next = 120) =>
                (tpc' = "report" <=> now' >= 120)
          /\ (tpc = "report" /\ errs = MaxRetries /\ done' = done) =>
                (tpc' = "select" /\ next' = next /\ lastReport' = lastReport)
          /\ (tpc = "select" /\ errs = MaxRetries /\ calls = MaxRetries /\ now' /= now) =>
                (tpc' = "report" /\ next' = 120 /\ lastReport' = 60 /\ calls' = 0)]_vars

\* The scenario after a failed round: the transmission for next = T0 + 120 is
\* entered again at a later tick.
C14_Witness ==
    /\ CadenceScenario
    /\ tpc = "report"
    /\ calls = 0
    /\ next = 120
    /\ lastReport = 60
    /\ now >= 122
    /\ ~done

\* ------------------------------------------------------------------ C17
\* C17: a Reporter that never reported gets lastReport = next - interval at
\* the schedule; from then on next = lastReport + interval; a tick enters the
\* transmission exactly when its time is at or after next; and sendReport is
\* only called for a next that is not after the tick's time.
C17_DueAtNext ==
    [][/\ (tpc = "sched" /\ tpc' = "select") => lastReport' = next' - reportInterval
       /\ tpc' \in {"select", "report", "stopped"} => next' = lastReport' + reportInterval
       /\ (tpc = "select" /\ now' /= now) => (tpc' = "report" <=> now' >= next)
       /\ calls' > calls => (tpc = "report" /\ next <= now)]_vars

\* A second interval's transmission is under way after a first one succeeded.
C17_Witness ==
    /\ sent >= 1
    /\ tpc = "report"
    /\ calls >= 1
    /\ next >= createdAt + reportInterval
    /\ now >= next

\* ================================================================ liveness
\* The failed read of process p whose DeleteObject removed the object.
DeleteDone(p) ==
    /\ blob.present
    /\ ReadCorrupt(p) \/ ReadIOError(p)
    /\ blob' = NoObject

\* The seed protocol without cancellation and restarts.
LiveNext ==
    \/ \E p \in Procs : Running(p) /\ UNCHANGED <<runVars, fnVars>>
    \/ \E p \in Procs : CASFail(p) /\ UNCHANGED <<runVars, fnVars>>
    \/ \E p \in Procs : CASFailApplied(p) /\ UNCHANGED <<runVars, fnVars>>
    \/ \E p \in Procs : CASOk(p) /\ UNCHANGED <<runVars, fnVars>>
    \/ \E p \in Procs : ReadOK(p) /\ UNCHANGED <<runVars, fnVars>>
    \/ \E p \in Procs : ReadNotFound(p) /\ UNCHANGED <<runVars, fnVars>>
    \/ \E p \in Procs : ReadCorrupt(p) /\ UNCHANGED <<runVars, fnVars>>
    \/ \E p \in Procs : ReadIOError(p) /\ UNCHANGED <<runVars, fnVars>>
    \/ \E p \in Procs : WriteOK(p) /\ UNCHANGED <<runVars, fnVars>>
    \/ \E p \in Procs : WriteFail(p) /\ UNCHANGED <<runVars, fnVars>>
    \/ \E p \in Procs : Schedule(p) /\ UNCHANGED <<runVars, fnVars>>
    \/ CorruptBlob /\ UNCHANGED <<runVars, fnVars>>

\* A step of p with its regular outcome: the CAS returns without error, the
\* read returns what the object store holds.
Regular(p) ==
    \/ Running(p)
    \/ Schedule(p)
    \/ CASOk(p)
    \/ ReadOK(p)
    \/ ReadNotFound(p)
    \/ ReadCorrupt(p)

\* Store operations eventually succeed: in every position a process eventually
\* gets the regular outcome of its pending call (weak fairness, the call stays
\* pending until then); a delete and a put that are attempted again and again
\* eventually succeed (strong fairness).  Failing outcomes and damage to the
\* blob carry no fairness.
LiveFairness ==
    /\ \A p \in Procs : WF_vars(Regular(p) /\ UNCHANGED <<runVars, fnVars>>)
    /\ \A p \in Procs : SF_vars(DeleteDone(p) /\ UNCHANGED <<runVars, fnVars>>)
    /\ \A p \in Leaders : SF_vars(WriteOK(p) /\ UNCHANGED <<runVars, fnVars>>)

LiveSpec == Init /\ [][LiveNext]_vars /\ LiveFairness

\* C13 (as claimed): in a fresh cluster with one leader-role process and a
\* follower, when from some point on no read fails transiently and the blob
\* is never damaged, eventually the leader has written the blob and the
\* follower has resolved a seed with the leader's UID.
C13_Original ==
    (active = {"l1", "f1"} /\ <>[][\A p \in Procs : ~ReadIOError(p)]_vars) =>
        <>(\/ corrupts > 0
           \/ /\ "l1" \in putBy
              /\ cluster["l1"] /= Nil
              /\ cluster["f1"] /= Nil
              /\ cluster["f1"].UID = cluster["l1"].UID)

\* C19: a leader-role process resolving the seed while the blob is
\* undecodable eventually sees the blob deleted, and eventually has put a
\* seed, holds a seed and the blob is decodable.
Poisoned(p) == pc[p] \in {"cas", "fetch"} /\ blob.present /\ ~DecodeOK(blob.data)
C19_PoisonRecovery ==
    \A p \in Leaders :
        /\ Poisoned(p) ~> ~blob.present
        /\ Poisoned(p) ~> (p \in putBy /\ cluster[p] = kv /\ kv /= Nil /\ Decodable)

\* C19 witness: a leader-role process that started on an undecodable blob has
\* written the seed and resolved it.
C19_Witness ==
    \E p \in Leaders :
        /\ corrupts > 0
        /\ p \in putBy
        /\ p /= installer
        /\ pc[p] = "loop"
        /\ cluster[p] = kv
        /\ Decodable
====
